---- MODULE Spec2Model ----
(***************************************************************************)
(* MongoCatalogApp: the FastAPI route handlers of app.py and the data      *)
(* access functions of services/products.py over one "products"            *)
(* collection.  Every call on the collection (find_one, insert_one,        *)
(* update_one, delete_one) is one atomic step; a request handler is the    *)
(* sequence of its collection calls, and requests of different clients     *)
(* interleave between those calls.                                         *)
(*                                                                         *)
(* Documents and request bodies are dictionaries: functions from field     *)
(* names to values.  Python's None in a field is the value None; a         *)
(* find_one that finds nothing returns NoneDoc.  A field of a request body *)
(* sent as null is a field not sent.                                       *)
(*                                                                         *)
(* Three specifications:                                                   *)
(*   Spec            one client calls the route handlers, one request      *)
(*                   after the other, with bodies in and out of range;     *)
(*   SpecConcurrent  two clients, whose requests interleave;               *)
(*   SpecHttp        one client sends HTTP requests (method, path, body),  *)
(*                   which the router dispatches to the handlers.          *)
(*                                                                         *)
(* The collection itself comes from db.get_products_collection, which is   *)
(* outside the two source files; its unique constraint on sku              *)
(* (UniqueSkuIndex) is the one the specification's concurrency section     *)
(* assumes.  The collection calls behave as those of a current MongoDB     *)
(* server: natural order is insertion order, {"$set": {}} is a no-op.      *)
(***************************************************************************)
EXTENDS Integers, Sequences, FiniteSets, TLC

VARIABLES
    store,      \* the products collection: documents in natural (insertion) order
    nextId,     \* the next _id the driver generates for insert_one
    pc,         \* per client: the collection call its handler performs next
    req,        \* per client: the handler's arguments (path parameters, body) and
                \* what it passes to the services function (data, crit)
    ret         \* per client: what the services function returned or raised

vars == <<store, nextId, pc, req, ret>>

----------------------------------------------------------------------------
(* Bounds of the model *)

MaxInserts == 2     \* insert_one calls acknowledged in one behaviour
MaxReviews == 2     \* reviews the collection holds

Clients == {1, 2}
HttpClients == {1}

Skus == {"A", "B"}
None == "None"
NoneDoc == << >>
EmptyDict == << >>

----------------------------------------------------------------------------
(* Dictionaries *)

\* d1 | d2 of Python, {**d1, **d2}: the fields of upd replace those of d.
Merge(d, upd) ==
    [f \in DOMAIN d \cup DOMAIN upd |-> IF f \in DOMAIN upd THEN upd[f] ELSE d[f]]

Entry(f, v) == [x \in {f} |-> v]

\* A dictionary that holds field f with a value of vals, or does not hold it.
OptEntries(f, vals) == {EmptyDict} \cup {Entry(f, v) : v \in vals}

----------------------------------------------------------------------------
(* Pydantic models of app.py: validation and model_dump *)

ReviewFields == {"review_id", "user_id", "rating", "comment", "verified"}

\* conint(ge=1, le=5)
RatingOk(r) == r >= 1 /\ r <= 5

\* class Review: review_id, user_id, rating and verified are required.
ValidReview(b) ==
    /\ {"review_id", "user_id", "rating", "verified"} \subseteq DOMAIN b
    /\ RatingOk(b["rating"])

\* Review.model_dump(): the declared fields, comment defaulting to None.
DumpReview(b) ==
    [f \in ReviewFields |-> IF f \in DOMAIN b THEN b[f] ELSE None]

\* class ReviewUpdate: every field optional, rating constrained when given;
\* fields the model does not declare are ignored.
ValidReviewUpdate(b) == "rating" \in DOMAIN b => RatingOk(b["rating"])

\* ReviewUpdate.model_dump(exclude_none=True)
DumpReviewUpdate(b) ==
    [f \in DOMAIN b \cap {"user_id", "rating", "comment", "verified"} |-> b[f]]

\* condecimal(ge=0, max_digits=10, decimal_places=2): prices are amounts in cents,
\* so two decimal places at most; the digit limit is beyond the prices sent.
PriceOk(p) == p >= 0

\* class ProductCreate: sku, name and price are required; reviews is a list of Review.
ValidProductCreate(b) ==
    /\ {"sku", "name", "price"} \subseteq DOMAIN b
    /\ PriceOk(b["price"])
    /\ "reviews" \in DOMAIN b =>
           \A i \in 1..Len(b["reviews"]) : ValidReview(b["reviews"][i])

\* ProductCreate.model_dump()
DumpProductCreate(b) ==
    [sku      |-> b["sku"],
     name     |-> b["name"],
     price    |-> b["price"],
     category |-> IF "category" \in DOMAIN b THEN b["category"] ELSE None,
     reviews  |-> IF "reviews" \in DOMAIN b
                  THEN [i \in 1..Len(b["reviews"]) |-> DumpReview(b["reviews"][i])]
                  ELSE << >>]

\* class ProductUpdate: name, price, category, all optional.
ValidProductUpdate(b) == "price" \in DOMAIN b => PriceOk(b["price"])

\* update_data = {k: v for k, v in body.model_dump().items() if v is not None}
\* (a field sent as null is a field not sent; undeclared fields are ignored)
DumpProductUpdate(b) ==
    [f \in DOMAIN b \cap {"name", "price", "category"} |-> b[f]]

\* class ReviewArrayFilterUpdate: both fields required, each Dict[str, Any].
ValidReviewArrayFilterUpdate(b) == {"filter_criteria", "new_data"} \subseteq DOMAIN b

----------------------------------------------------------------------------
(* The collection: the calls services/products.py makes on it *)

\* Mutant: the collection has no unique constraint on sku.
UniqueSkuIndex_Absent == FALSE

\* The storage layer's unique constraint on sku.
UniqueSkuIndex == TRUE

HasSku(sku) == \E i \in 1..Len(store) : store[i]["sku"] = sku

\* Index of the first document, in natural order, that has this sku; 0 if none.
FirstSku(sku) ==
    IF HasSku(sku)
    THEN CHOOSE i \in 1..Len(store) :
             /\ store[i]["sku"] = sku
             /\ \A j \in 1..(i - 1) : store[j]["sku"] # sku
    ELSE 0

\* Mutant: the existence check never finds the document.
SkuExists_Never(product_data) == FALSE

\* if coll.find_one({"sku": product_data["sku"]}): the existence check of create_product
SkuExists(product_data) == HasSku(product_data["sku"])

\* The projection {"_id": 0}
Project(doc) == [f \in DOMAIN doc \ {"_id"} |-> doc[f]]

\* coll.find_one({"sku": sku}, {"_id": 0})
FindOne(sku) == IF HasSku(sku) THEN Project(store[FirstSku(sku)]) ELSE NoneDoc

\* coll.insert_one(product_data): the driver adds a fresh _id.
InsertOneDoc(product_data) == Entry("_id", nextId) @@ product_data

\* insert_one raises DuplicateKeyError when the unique constraint rejects the document.
DuplicateKey(product_data) == UniqueSkuIndex /\ HasSku(product_data["sku"])

RECURSIVE SumReviews(_)
SumReviews(docs) ==
    IF docs = << >> THEN 0 ELSE Len(Head(docs)["reviews"]) + SumReviews(Tail(docs))

\* The number of reviews in the collection
TotalReviews == SumReviews(store)

RemoveAt(s, i) == [j \in 1..(Len(s) - 1) |-> IF j < i THEN s[j] ELSE s[j + 1]]

\* Index of the first document the query {"sku": sku, "reviews.review_id": rid}
\* matches: the sku is equal and some element of reviews has that review_id; 0 if none.
HasReview(doc, rid) ==
    \E k \in 1..Len(doc["reviews"]) : doc["reviews"][k]["review_id"] = rid

MatchesReviewQuery(sku, rid) ==
    \E i \in 1..Len(store) : store[i]["sku"] = sku /\ HasReview(store[i], rid)

FirstReviewQuery(sku, rid) ==
    IF MatchesReviewQuery(sku, rid)
    THEN CHOOSE i \in 1..Len(store) :
             /\ store[i]["sku"] = sku /\ HasReview(store[i], rid)
             /\ \A j \in 1..(i - 1) :
                    ~(store[j]["sku"] = sku /\ HasReview(store[j], rid))
    ELSE 0

\* The array position the positional operator $ stands for: the first element of
\* reviews the query matched.
PositionalIndex(doc, rid) ==
    CHOOSE k \in 1..Len(doc["reviews"]) :
        /\ doc["reviews"][k]["review_id"] = rid
        /\ \A j \in 1..(k - 1) : doc["reviews"][j]["review_id"] # rid

\* Mutant: the None filter is lost: name and category are written as None when
\* the request does not provide them.
SetFields_ResetMissing(doc, update_data) ==
    Merge([doc EXCEPT !["name"] = None, !["category"] = None], update_data)

\* {"$set": update_data} on a document
SetFields(doc, update_data) == Merge(doc, update_data)

\* Mutant: a review whose review_id is present is not added again.
PushReview_Dedup(doc, review_data) ==
    IF HasReview(doc, review_data["review_id"])
    THEN doc
    ELSE [doc EXCEPT !["reviews"] = Append(@, review_data)]

\* {"$push": {"reviews": review_data}}
PushReview(doc, review_data) ==
    [doc EXCEPT !["reviews"] = Append(@, review_data)]

\* Mutant: every review with that review_id is updated.
SetPositional_All(doc, rid, update_data) ==
    [doc EXCEPT !["reviews"] =
        [k \in 1..Len(@) |->
            IF @[k]["review_id"] = rid THEN Merge(@[k], update_data) ELSE @[k]]]

\* {"$set": {"reviews.$.k": v, ...}}
SetPositional(doc, rid, update_data) ==
    [doc EXCEPT !["reviews"][PositionalIndex(doc, rid)] = Merge(@, update_data)]

\* Mutant: only the first review that satisfies the filter is updated.
SetFiltered_First(doc, filter_criteria, new_data) ==
    LET hits == {k \in 1..Len(doc["reviews"]) :
                    \A f \in DOMAIN filter_criteria :
                        f \in DOMAIN doc["reviews"][k]
                        /\ doc["reviews"][k][f] = filter_criteria[f]}
    IN  IF hits = {} THEN doc
        ELSE LET k == CHOOSE x \in hits : \A y \in hits : x <= y
             IN  [doc EXCEPT !["reviews"][k] = Merge(@, new_data)]

\* An element of reviews satisfies the array filter {"rev.k": v, ...}: it holds
\* every named field with an equal value.
MatchesFilter(review, filter_criteria) ==
    \A k \in DOMAIN filter_criteria :
        k \in DOMAIN review /\ review[k] = filter_criteria[k]

\* {"$set": {"reviews.$[rev].k": v, ...}} with array_filters
SetFiltered(doc, filter_criteria, new_data) ==
    [doc EXCEPT !["reviews"] =
        [k \in 1..Len(@) |->
            IF MatchesFilter(@[k], filter_criteria) THEN Merge(@[k], new_data) ELSE @[k]]]

----------------------------------------------------------------------------
(* Requests *)

NoReq == [endpoint |-> "", sku |-> "", review_id |-> "", body |-> EmptyDict,
          data |-> EmptyDict, crit |-> EmptyDict]

\* What a services function handed back: exc = 0 and the returned value, or the
\* status code of the exception it raised.
NoRet == [exc |-> 0, value |-> NoneDoc]
Returned(v) == [exc |-> 0, value |-> v]
Raised(code) == [exc |-> code, value |-> NoneDoc]

\* Mutant: the helper returns instead of raising.
_not_found_Silent(sku) == Returned(NoneDoc)

\* _not_found(sku): raise HTTPException(404)
_not_found(sku) == Raised(404)

Init ==
    /\ store = << >>
    /\ nextId = 1
    /\ pc = [c \in Clients |-> "idle"]
    /\ req = [c \in Clients |-> NoReq]
    /\ ret = [c \in Clients |-> NoRet]

\* The handler leaves the services function: by return or by a raised exception.
Finish(c, r) ==
    /\ pc' = [pc EXCEPT ![c] = "done"]
    /\ ret' = [ret EXCEPT ![c] = r]

Goto(c, label) ==
    /\ pc' = [pc EXCEPT ![c] = label]
    /\ UNCHANGED ret

\* Request validation failed: FastAPI answers 422 and the handler does not run.
Reject(c, endpoint, sku) ==
    /\ req' = [req EXCEPT ![c] = [NoReq EXCEPT !.endpoint = endpoint, !.sku = sku]]
    /\ Finish(c, Raised(422))
    /\ UNCHANGED <<store, nextId>>

\* insert_one calls still to come from handlers past the existence check
PendingInserts == Cardinality({c \in Clients : pc[c] = "create_insert"})

RECURSIVE SumPending(_)
SumPending(cs) ==
    IF cs = {} THEN 0
    ELSE LET c == CHOOSE x \in cs : TRUE
         IN  Len(req[c].data["reviews"]) + SumPending(cs \ {c})

\* reviews those insert_one calls will add
PendingReviews == SumPending({c \in Clients : pc[c] = "create_insert"})

BodyReviews(body) == IF "reviews" \in DOMAIN body THEN Len(body["reviews"]) ELSE 0

----------------------------------------------------------------------------
(* POST /products: app.create_product, then services.create_product *)

\* The existence check: find_one({"sku": ...}), 409 when it finds a document.
create_product(c, body) ==
    /\ pc[c] = "idle"
    /\ (nextId - 1) + PendingInserts < MaxInserts
    /\ TotalReviews + PendingReviews + BodyReviews(body) <= MaxReviews
    /\ IF ~ValidProductCreate(body)
       THEN Reject(c, "create_product", "")
       ELSE LET product_data == DumpProductCreate(body) IN
            /\ req' = [req EXCEPT ![c] = [NoReq EXCEPT !.endpoint = "create_product",
                                                      !.sku = product_data["sku"],
                                                      !.body = body,
                                                      !.data = product_data]]
            /\ IF SkuExists(product_data)
               THEN Finish(c, Raised(409))
               ELSE Goto(c, "create_insert")
            /\ UNCHANGED <<store, nextId>>

\* result = coll.insert_one(product_data); 500 when result.inserted_id is empty.
\* An acknowledged insert carries the _id it stored.  A DuplicateKeyError of the
\* driver is not caught and ends the request with 500.
create_insert(c) ==
    /\ pc[c] = "create_insert"
    /\ IF DuplicateKey(req[c].data)
       THEN /\ Finish(c, Raised(500))
            /\ UNCHANGED <<store, nextId>>
       ELSE LET inserted_id == InsertOneDoc(req[c].data)["_id"] IN
            /\ store' = Append(store, InsertOneDoc(req[c].data))
            /\ nextId' = nextId + 1
            /\ IF inserted_id = 0
               THEN Finish(c, Raised(500))
               ELSE Goto(c, "create_read")
    /\ UNCHANGED req

\* return coll.find_one({"sku": product_data["sku"]}, {"_id": 0})
create_return(c) ==
    /\ pc[c] = "create_read"
    /\ Finish(c, Returned(FindOne(req[c].sku)))
    /\ UNCHANGED <<store, nextId, req>>

----------------------------------------------------------------------------
(* GET /products/{sku} *)

get_product(c, sku) ==
    /\ pc[c] = "idle"
    /\ req' = [req EXCEPT ![c] = [NoReq EXCEPT !.endpoint = "get_product", !.sku = sku]]
    /\ IF FindOne(sku) = NoneDoc
       THEN Finish(c, _not_found(sku))
       ELSE Finish(c, Returned(FindOne(sku)))
    /\ UNCHANGED <<store, nextId>>

----------------------------------------------------------------------------
(* PATCH /products/{sku} *)

\* coll.update_one({"sku": sku}, {"$set": update_data}); 404 when matched_count is 0.
\* An empty update_data gives {"$set": {}}, which matches and changes nothing.
update_product(c, sku, body) ==
    /\ pc[c] = "idle"
    /\ IF ~ValidProductUpdate(body)
       THEN Reject(c, "update_product", sku)
       ELSE LET update_data == DumpProductUpdate(body) IN
            /\ req' = [req EXCEPT ![c] = [NoReq EXCEPT !.endpoint = "update_product",
                                                      !.sku = sku, !.body = body,
                                                      !.data = update_data]]
            /\ IF ~HasSku(sku)
               THEN /\ Finish(c, _not_found(sku))
                    /\ UNCHANGED store
               ELSE /\ store' = [store EXCEPT ![FirstSku(sku)] = SetFields(@, update_data)]
                    /\ Goto(c, "update_read")
            /\ UNCHANGED nextId

\* return coll.find_one({"sku": sku}, {"_id": 0})
update_return(c) ==
    /\ pc[c] = "update_read"
    /\ Finish(c, Returned(FindOne(req[c].sku)))
    /\ UNCHANGED <<store, nextId, req>>

----------------------------------------------------------------------------
(* DELETE /products/{sku} *)

\* coll.delete_one({"sku": sku}); 404 when deleted_count is 0.
delete_product(c, sku) ==
    /\ pc[c] = "idle"
    /\ req' = [req EXCEPT ![c] = [NoReq EXCEPT !.endpoint = "delete_product", !.sku = sku]]
    /\ IF ~HasSku(sku)
       THEN /\ Finish(c, _not_found(sku))
            /\ UNCHANGED store
       ELSE /\ store' = RemoveAt(store, FirstSku(sku))
            /\ Finish(c, Returned([message |-> "deleted"]))
    /\ UNCHANGED nextId

----------------------------------------------------------------------------
(* POST /products/{sku}/reviews *)

\* coll.update_one({"sku": sku}, {"$push": {"reviews": review_data}})
add_review(c, sku, body) ==
    /\ pc[c] = "idle"
    /\ TotalReviews + PendingReviews < MaxReviews
    /\ IF ~ValidReview(body)
       THEN Reject(c, "add_review", sku)
       ELSE LET review_data == DumpReview(body) IN
            /\ req' = [req EXCEPT ![c] = [NoReq EXCEPT !.endpoint = "add_review",
                                                      !.sku = sku, !.body = body,
                                                      !.data = review_data]]
            /\ IF ~HasSku(sku)
               THEN /\ Finish(c, _not_found(sku))
                    /\ UNCHANGED store
               ELSE /\ store' = [store EXCEPT ![FirstSku(sku)] = PushReview(@, review_data)]
                    /\ Goto(c, "review_read")
            /\ UNCHANGED nextId

add_review_return(c) ==
    /\ pc[c] = "review_read"
    /\ Finish(c, Returned(FindOne(req[c].sku)))
    /\ UNCHANGED <<store, nextId, req>>

----------------------------------------------------------------------------
(* PATCH /products/{sku}/reviews/{review_id} *)

\* coll.update_one({"sku": sku, "reviews.review_id": review_id},
\*                 {"$set": {"reviews.$.k": v}}); 404 when matched_count is 0.
\* An empty update_data gives {"$set": {}}, which matches and changes nothing.
update_review_positional(c, sku, review_id, body) ==
    /\ pc[c] = "idle"
    /\ IF ~ValidReviewUpdate(body)
       THEN Reject(c, "update_review_positional", sku)
       ELSE LET update_data == DumpReviewUpdate(body) IN
            /\ req' = [req EXCEPT ![c] = [NoReq EXCEPT
                          !.endpoint = "update_review_positional", !.sku = sku,
                          !.review_id = review_id, !.body = body,
                          !.data = update_data]]
            /\ IF ~MatchesReviewQuery(sku, review_id)
               THEN /\ Finish(c, _not_found(sku))
                    /\ UNCHANGED store
               ELSE /\ store' = [store EXCEPT ![FirstReviewQuery(sku, review_id)] =
                                    SetPositional(@, review_id, update_data)]
                    /\ Goto(c, "positional_read")
            /\ UNCHANGED nextId

update_review_positional_return(c) ==
    /\ pc[c] = "positional_read"
    /\ Finish(c, Returned(FindOne(req[c].sku)))
    /\ UNCHANGED <<store, nextId, req>>

----------------------------------------------------------------------------
(* PATCH /products/{sku}/reviews/arrayfilters *)

\* coll.update_one({"sku": sku}, {"$set": {"reviews.$[rev].k": v}},
\*                 array_filters=[{"rev.k": v}]); 404 when matched_count is 0.
update_review_array_filters(c, sku, body) ==
    /\ pc[c] = "idle"
    /\ IF ~ValidReviewArrayFilterUpdate(body)
       THEN Reject(c, "patch_review_with_arrayfilter", sku)
       ELSE LET filter_criteria == body["filter_criteria"]
                new_data == body["new_data"] IN
            /\ req' = [req EXCEPT ![c] = [NoReq EXCEPT
                          !.endpoint = "patch_review_with_arrayfilter", !.sku = sku,
                          !.body = body, !.data = new_data, !.crit = filter_criteria]]
            /\ IF ~HasSku(sku)
               THEN /\ Finish(c, _not_found(sku))
                    /\ UNCHANGED store
               ELSE /\ store' = [store EXCEPT ![FirstSku(sku)] =
                                    SetFiltered(@, filter_criteria, new_data)]
                    /\ Goto(c, "filter_read")
            /\ UNCHANGED nextId

update_review_array_filters_return(c) ==
    /\ pc[c] = "filter_read"
    /\ Finish(c, Returned(FindOne(req[c].sku)))
    /\ UNCHANGED <<store, nextId, req>>

----------------------------------------------------------------------------
(* The response leaves; the client may send its next request. *)

Respond(c) ==
    /\ pc[c] = "done"
    /\ pc' = [pc EXCEPT ![c] = "idle"]
    /\ req' = [req EXCEPT ![c] = NoReq]
    /\ ret' = [ret EXCEPT ![c] = NoRet]
    /\ UNCHANGED <<store, nextId>>

----------------------------------------------------------------------------
(* The HTTP layer of app.py: routing and the response *)

\* class ProductOut, the response_model: sku, name and price are required and
\* reviews is a list of Review.
ValidProductOut(v) ==
    /\ {"sku", "name", "price"} \subseteq DOMAIN v
    /\ "reviews" \in DOMAIN v =>
           \A i \in 1..Len(v["reviews"]) : ValidReview(v["reviews"][i])

\* The status code the client receives.  An HTTPException carries its own code; a
\* returned value that fails the response_model ends the request with 500.
HttpStatus(endpoint, r) ==
    IF r.exc # 0 THEN r.exc
    ELSE IF endpoint = "delete_product" THEN 204
    ELSE IF ~ValidProductOut(r.value) THEN 500
    ELSE IF endpoint \in {"create_product", "add_review"} THEN 201
    ELSE 200

\* The routes in the order app.py declares them.
Routes == <<
    [method |-> "GET",    path |-> <<"health">>,                       endpoint |-> "health_check"],
    [method |-> "GET",    path |-> <<"products">>,                     endpoint |-> "list_products"],
    [method |-> "GET",    path |-> <<"products", "{sku}">>,            endpoint |-> "get_product"],
    [method |-> "POST",   path |-> <<"products">>,                     endpoint |-> "create_product"],
    [method |-> "PATCH",  path |-> <<"products", "{sku}">>,            endpoint |-> "update_product"],
    [method |-> "DELETE", path |-> <<"products", "{sku}">>,            endpoint |-> "delete_product"],
    [method |-> "POST",   path |-> <<"products", "{sku}", "reviews">>, endpoint |-> "add_review"],
    [method |-> "PATCH",  path |-> <<"products", "{sku}", "reviews", "{review_id}">>,
                                                                       endpoint |-> "update_review_positional"],
    [method |-> "PATCH",  path |-> <<"products", "{sku}", "reviews", "arrayfilters">>,
                                                                       endpoint |-> "patch_review_with_arrayfilter"] >>

IsParam(segment) == segment \in {"{sku}", "{review_id}"}

\* A route matches a request: the method is equal, and every segment of the path is
\* equal to the route's or stands for a path parameter.
RouteMatches(route, method, path) ==
    /\ route.method = method
    /\ Len(route.path) = Len(path)
    /\ \A i \in 1..Len(path) : IsParam(route.path[i]) \/ route.path[i] = path[i]

\* The router takes the first route that matches, in declaration order; 0 if none.
MatchRoute(method, path) ==
    IF \E i \in 1..Len(Routes) : RouteMatches(Routes[i], method, path)
    THEN CHOOSE i \in 1..Len(Routes) :
             /\ RouteMatches(Routes[i], method, path)
             /\ \A j \in 1..(i - 1) : ~RouteMatches(Routes[j], method, path)
    ELSE 0

\* A request arrives: the router picks the handler, which gets the path parameters
\* and the body.
HttpRequest(c, method, path, body) ==
    \E r \in {MatchRoute(method, path)} \ {0} :
        \E endpoint \in {Routes[r].endpoint} :
            CASE endpoint = "create_product" -> create_product(c, body)
              [] endpoint = "get_product" -> get_product(c, path[2])
              [] endpoint = "update_product" -> update_product(c, path[2], body)
              [] endpoint = "delete_product" -> delete_product(c, path[2])
              [] endpoint = "add_review" -> add_review(c, path[2], body)
              [] endpoint = "update_review_positional" ->
                     update_review_positional(c, path[2], path[4], body)
              [] endpoint = "patch_review_with_arrayfilter" ->
                     update_review_array_filters(c, path[2], body)
              [] OTHER -> FALSE

----------------------------------------------------------------------------
(* The requests the clients send *)

\* Request bodies, as the JSON a client sends: fields may be missing or out of range.
ReviewBody(id, r) == [review_id |-> id, user_id |-> "u1", rating |-> r, verified |-> FALSE]

ReviewBodiesOf(ids) ==
    {ReviewBody(id, r) : id \in ids, r \in {0, 5, 6}}
    \cup {[review_id |-> "r1", user_id |-> "u1", verified |-> FALSE]}

ProductCreateBodies ==
    {[sku |-> s, name |-> "n1", price |-> p] : s \in Skus, p \in {-1, 100}}
    \cup {[sku |-> s, name |-> "n1", price |-> 100, reviews |-> <<ReviewBody("r1", r)>>] :
              s \in Skus, r \in {5, 6}}

ProductUpdateBodies ==
    {EmptyDict, [price |-> 250], [name |-> "n2", category |-> "c1"],
     [name |-> "n2", price |-> 250, category |-> "c1"], [price |-> -1],
     [price |-> 250, sku |-> "B"]}

ReviewUpdateBodies == OptEntries("rating", {0, 1, 6})

ArrayFilterBodies ==
    {[filter_criteria |-> f, new_data |-> d] :
        f \in {[review_id |-> "r1"], [rating |-> 5], [review_id |-> "r1", rating |-> 5]},
        d \in {[rating |-> 1], [rating |-> 9]}}
    \cup {[new_data |-> [rating |-> 1]]}

ReviewIds == {"r1", "r2"}
ReviewBodies == ReviewBodiesOf(ReviewIds)

\* The collection calls a handler makes after its first one, and the response.
Step(c) ==
    \/ create_insert(c)
    \/ create_return(c)
    \/ update_return(c)
    \/ add_review_return(c)
    \/ update_review_positional_return(c)
    \/ Respond(c)

----------------------------------------------------------------------------
(* Spec: one client calls the handlers, one request after the other. *)

Sequential == {1}

Next ==
    \E c \in Sequential :
        \/ \E body \in ProductCreateBodies : create_product(c, body)
        \/ \E sku \in Skus : get_product(c, sku)
        \/ \E sku \in Skus, body \in ProductUpdateBodies : update_product(c, sku, body)
        \/ \E sku \in Skus : delete_product(c, sku)
        \/ \E sku \in Skus, body \in ReviewBodies : add_review(c, sku, body)
        \/ \E sku \in Skus, rid \in ReviewIds, body \in ReviewUpdateBodies :
               update_review_positional(c, sku, rid, body)
        \/ \E sku \in Skus, body \in ArrayFilterBodies :
               update_review_array_filters(c, sku, body)
        \/ update_review_array_filters_return(c)
        \/ Step(c)

Spec == Init /\ [][Next]_vars

----------------------------------------------------------------------------
(* SpecConcurrent: the requests of two clients interleave between collection     *)
(* calls.  The clients send one request of each kind, all for the same sku.      *)

ConcurrentSku == "A"

NextConcurrent ==
    \E c \in Clients :
        \/ create_product(c, [sku |-> ConcurrentSku, name |-> "n1", price |-> 100])
        \/ get_product(c, ConcurrentSku)
        \/ update_product(c, ConcurrentSku, [name |-> "n2"])
        \/ delete_product(c, ConcurrentSku)
        \/ add_review(c, ConcurrentSku, ReviewBody("r1", 5))
        \/ update_review_positional(c, ConcurrentSku, "r1", [rating |-> 1])
        \/ update_review_array_filters(c, ConcurrentSku,
               [filter_criteria |-> [review_id |-> "r1"], new_data |-> [rating |-> 9]])
        \/ update_review_array_filters_return(c)
        \/ Step(c)

SpecConcurrent == Init /\ [][NextConcurrent]_vars

----------------------------------------------------------------------------
(* SpecHttp: one client sends HTTP requests, which the router dispatches.        *)

HttpReviewIds == {"r1", "arrayfilters"}

HttpRequests ==
    {[method |-> "POST", path |-> <<"products">>, body |-> b] : b \in ProductCreateBodies}
    \cup {[method |-> m, path |-> <<"products", s>>, body |-> EmptyDict] :
              m \in {"GET", "DELETE"}, s \in Skus}
    \cup {[method |-> "PATCH", path |-> <<"products", s>>, body |-> b] :
              s \in Skus, b \in ProductUpdateBodies}
    \cup {[method |-> "POST", path |-> <<"products", s, "reviews">>, body |-> b] :
              s \in Skus, b \in ReviewBodiesOf(HttpReviewIds)}
    \cup {[method |-> "PATCH", path |-> <<"products", s, "reviews", id>>, body |-> b] :
              s \in Skus, id \in HttpReviewIds \ {"arrayfilters"}, b \in ReviewUpdateBodies}
    \cup {[method |-> "PATCH", path |-> <<"products", s, "reviews", "arrayfilters">>,
           body |-> b] : s \in Skus, b \in ArrayFilterBodies}

NextHttp ==
    \E c \in HttpClients :
        \/ \E r \in HttpRequests : HttpRequest(c, r.method, r.path, r.body)
        \/ Step(c)

SpecHttp == Init /\ [][NextHttp]_vars

----------------------------------------------------------------------------
(* Properties *)

\* Client c's handler of this endpoint makes its first collection call in this
\* step: the request passed validation and reached services/products.py.
Enters(c, endpoint) ==
    /\ pc[c] = "idle"
    /\ pc'[c] # "idle"
    /\ req'[c].endpoint = endpoint
    /\ ret'[c].exc # 422

\* The documents other than the one at index i, and the fields of that one other
\* than the given ones, are the same after the step.
OnlyChanges(i, fields) ==
    /\ Len(store') = Len(store)
    /\ \A j \in 1..Len(store) : j # i => store'[j] = store[j]
    /\ DOMAIN store'[i] = DOMAIN store[i]
    /\ \A f \in DOMAIN store[i] \ fields : store'[i][f] = store[i][f]

\* C1: a create_product call whose sku a stored document already has fails with
\* 409 Conflict, and the collection after the call is the collection before it.
C1_CreateConflict ==
    [][\A c \in Clients :
          (Enters(c, "create_product") /\ HasSku(req'[c].sku)) =>
              /\ pc'[c] = "done"
              /\ ret'[c].exc = 409
              /\ HttpStatus(req'[c].endpoint, ret'[c]) = 409
              /\ store' = store
              /\ nextId' = nextId]_vars

C1_Witness ==
    \E c \in Clients :
        /\ pc[c] = "done"
        /\ req[c].endpoint = "create_product"
        /\ ret[c].exc = 409
        /\ HasSku(req[c].sku)
        /\ store[FirstSku(req[c].sku)]["name"] # req[c].data["name"]

\* C3: for a sku no stored document has, get_product, update_product,
\* delete_product, add_review and update_review_positional each fail with 404
\* NotFound and leave the collection unchanged.
NotFoundEndpoints ==
    {"get_product", "update_product", "delete_product", "add_review",
     "update_review_positional"}

C3_AbsentSkuNotFound ==
    [][\A c \in Clients, e \in NotFoundEndpoints :
          (Enters(c, e) /\ ~HasSku(req'[c].sku)) =>
              /\ pc'[c] = "done"
              /\ ret'[c].exc = 404
              /\ HttpStatus(e, ret'[c]) = 404
              /\ store' = store]_vars

C3_Witness ==
    \E c \in Clients :
        /\ pc[c] = "done"
        /\ req[c].endpoint = "update_review_positional"
        /\ ret[c].exc = 404
        /\ ~HasSku(req[c].sku)
        /\ store # << >>

\* C4: update_product on a stored product is a partial merge: the fields the
\* request provides take the new values, and every other field of the document
\* (sku, the fields not provided, reviews) and every other document keep theirs.
C4_UpdateMerges ==
    [][\A c \in Clients :
          (Enters(c, "update_product") /\ HasSku(req'[c].sku)) =>
              LET i == FirstSku(req'[c].sku)
                  provided == DOMAIN req'[c].body \cap {"name", "price", "category"}
              IN  /\ pc'[c] = "update_read"
                  /\ OnlyChanges(i, provided)
                  /\ \A f \in provided : store'[i][f] = req'[c].body[f]]_vars

\* Only price was sent: price has the new value; name, category and a non-empty
\* reviews are in place.
C4_Witness ==
    \E c \in Clients :
        /\ pc[c] = "update_read"
        /\ req[c].body = [price |-> 250]
        /\ HasSku(req[c].sku)
        /\ LET doc == store[FirstSku(req[c].sku)]
           IN  /\ doc["price"] = 250
               /\ doc["name"] = "n1"
               /\ doc["category"] = None
               /\ doc["reviews"] # << >>

\* C5: add_review on a stored product appends: the reviews after the call are the
\* reviews before it, in their order, followed by the new review, also when a
\* review with that review_id is already there.
C5_AppendIsLast ==
    [][\A c \in Clients :
          (Enters(c, "add_review") /\ HasSku(req'[c].sku)) =>
              LET i == FirstSku(req'[c].sku)
                  old == store[i]["reviews"]
                  new == store'[i]["reviews"]
              IN  /\ pc'[c] = "review_read"
                  /\ OnlyChanges(i, {"reviews"})
                  /\ Len(new) = Len(old) + 1
                  /\ \A k \in 1..Len(old) : new[k] = old[k]
                  /\ new[Len(new)] = req'[c].data]_vars

\* The appended review has the review_id of the review before it.
C5_Witness ==
    \E c \in Clients :
        /\ pc[c] = "review_read"
        /\ HasSku(req[c].sku)
        /\ LET reviews == store[FirstSku(req[c].sku)]["reviews"]
           IN  /\ Len(reviews) = 2
               /\ reviews[2] = req[c].data
               /\ reviews[1]["review_id"] = reviews[2]["review_id"]
               /\ reviews[1] # reviews[2]

\* C6: update_review_positional on a product that holds reviews with the given
\* review_id merges the fields sent into the first of them only: the other reviews,
\* the length and order of reviews, and the other fields of that review are unchanged.
C6_PositionalFirstOnly ==
    [][\A c \in Clients :
          (Enters(c, "update_review_positional")
              /\ MatchesReviewQuery(req'[c].sku, req'[c].review_id)) =>
              LET i == FirstSku(req'[c].sku)
                  rid == req'[c].review_id
                  update_data == req'[c].data
                  old == store[i]["reviews"]
                  new == store'[i]["reviews"]
                  first == CHOOSE k \in 1..Len(old) :
                               /\ old[k]["review_id"] = rid
                               /\ \A j \in 1..Len(old) : old[j]["review_id"] = rid => k <= j
              IN  /\ pc'[c] = "positional_read"
                  /\ OnlyChanges(i, {"reviews"})
                  /\ Len(new) = Len(old)
                  /\ \A k \in 1..Len(old) : k # first => new[k] = old[k]
                  /\ DOMAIN new[first] = DOMAIN old[first]
                  /\ \A f \in DOMAIN old[first] :
                         new[first][f] = IF f \in DOMAIN update_data
                                         THEN update_data[f]
                                         ELSE old[first][f]]_vars

\* Two reviews have the review_id; the first has the new rating, the second kept its own.
C6_Witness ==
    \E c \in Clients :
        /\ pc[c] = "positional_read"
        /\ req[c].data = [rating |-> 1]
        /\ HasSku(req[c].sku)
        /\ LET reviews == store[FirstSku(req[c].sku)]["reviews"]
           IN  /\ Len(reviews) = 2
               /\ reviews[1]["review_id"] = req[c].review_id
               /\ reviews[2]["review_id"] = req[c].review_id
               /\ reviews[1]["rating"] = 1
               /\ reviews[2]["rating"] = 5

\* C7: update_review_array_filters on a stored product sets every field of new_data
\* on every review that is equal to filter_criteria on all its fields, and leaves the
\* other reviews unchanged; when no review matches, the call changes nothing and
\* goes on to return the product; it raises 404 only when no document has the sku.
C7_FilterSetsAllMatches ==
    [][\A c \in Clients :
          Enters(c, "patch_review_with_arrayfilter") =>
              IF HasSku(req'[c].sku)
              THEN LET i == FirstSku(req'[c].sku)
                       old == store[i]["reviews"]
                       new == store'[i]["reviews"]
                       hit(k) == \A f \in DOMAIN req'[c].crit :
                                     f \in DOMAIN old[k] /\ old[k][f] = req'[c].crit[f]
                   IN  /\ pc'[c] = "filter_read"
                       /\ OnlyChanges(i, {"reviews"})
                       /\ Len(new) = Len(old)
                       /\ \A k \in 1..Len(old) :
                              IF hit(k)
                              THEN /\ \A f \in DOMAIN req'[c].data :
                                          new[k][f] = req'[c].data[f]
                                   /\ \A f \in DOMAIN old[k] \ DOMAIN req'[c].data :
                                          new[k][f] = old[k][f]
                              ELSE new[k] = old[k]
                       /\ (\A k \in 1..Len(old) : ~hit(k)) => store' = store
              ELSE /\ pc'[c] = "done"
                   /\ ret'[c].exc = 404
                   /\ store' = store]_vars

\* Both reviews matched the criteria and both have the new rating.
C7_Witness ==
    \E c \in Clients :
        /\ pc[c] = "filter_read"
        /\ req[c].crit = [review_id |-> "r1"]
        /\ req[c].data = [rating |-> 1]
        /\ HasSku(req[c].sku)
        /\ LET reviews == store[FirstSku(req[c].sku)]["reviews"]
           IN  /\ Len(reviews) = 2
               /\ \A k \in 1..2 : reviews[k]["review_id"] = "r1" /\ reviews[k]["rating"] = 1

\* C2: in every reachable state, whatever the interleaving of the clients'
\* requests, no two documents of the collection have the same sku.
C2_SkuUnique ==
    \A i, j \in 1..Len(store) : i # j => store[i]["sku"] # store[j]["sku"]

\* Two create_product calls for the same sku both passed the existence check; one
\* inserted, and the insert of the other was refused.
C2_Witness ==
    \E c1, c2 \in Clients :
        /\ c1 # c2
        /\ req[c1].endpoint = "create_product"
        /\ req[c2].endpoint = "create_product"
        /\ req[c1].sku = req[c2].sku
        /\ pc[c1] = "create_read"
        /\ pc[c2] = "done"
        /\ ret[c2].exc = 500
        /\ Len(store) = 1

\* C8: a request PATCH /products/{sku}/reviews/arrayfilters with a body
\* {filter_criteria, new_data}, for a stored product, is handled by
\* patch_review_with_arrayfilter, which updates and goes on to return the product.
C8_ArrayFiltersRoute ==
    [][\A c \in HttpClients, r \in HttpRequests :
          (/\ r.method = "PATCH"
           /\ Len(r.path) = 4
           /\ r.path[3] = "reviews"
           /\ r.path[4] = "arrayfilters"
           /\ ValidReviewArrayFilterUpdate(r.body)
           /\ HasSku(r.path[2])
           /\ HttpRequest(c, r.method, r.path, r.body)) =>
              /\ req'[c].endpoint = "patch_review_with_arrayfilter"
              /\ pc'[c] = "filter_read"]_vars

C10_CreateReturnsDocument ==
    \A c \in Clients :
        (pc[c] = "done" /\ req[c].endpoint = "create_product" /\ ret[c].exc = 0) =>
            /\ ret[c].value # NoneDoc
            /\ ret[c].value["sku"] = req[c].sku

====
